---- MODULE Spec2Model ----
(***************************************************************************)
(* Model of the RAG document manager service                               *)
(* (rag-document-manager-ms/app/services/document_service.py and its       *)
(* endpoints).  The vector store holds chunk records, tagged with the      *)
(* original_filename they come from, and one sentinel record whose         *)
(* metadata 'filenames' is the '|'-joined list of ingested document names. *)
(* Requests (ingest, delete, list) run concurrently and interleave at      *)
(* their await points.  The query service (rag-query-ms) answers questions *)
(* over the same collection with a retrieve / generate / check_relevance / *)
(* rewrite workflow; it has a specification of its own, QuerySpec.         *)
(***************************************************************************)
EXTENDS Naturals, Sequences, FiniteSets, TLC

(* ------------------------------ bounds -------------------------------- *)

\* request slots that may be in progress at the same time
MaxReq == 2

\* requests started in one behaviour
MaxOps == 2

\* uploaded files in one ingestion request
MaxFiles == 2

\* store or loader failures injected in one behaviour
MaxFaults == 1

\* documents the retriever returns for one question
MaxDocs == 2

\* questions asked in one behaviour
MaxQueries == 2

(* ------------------------- program constants -------------------------- *)

\* batch_size = 10 in process_and_store_files
BatchSize == 10

Req == 1..MaxReq

\* Characters of a filename: two ordinary characters and the delimiter.
Chars == {"a", "b", "|"}

\* ord() of a character, the order sorted() compares strings by.
Ord(c) == CASE c = "a" -> 97 [] c = "b" -> 98 [] c = "|" -> 124

\* Filenames a client may upload, as sequences of characters: two plain
\* names and one that contains the delimiter character.
FileNames == {<<"a">>, <<"b">>, <<"a", "|", "b">>}

\* Number of chunks the splitter may return for a file that loads: none
\* (an empty document), one, or a full batch.
ChunkCounts == {0, 1, BatchSize}

\* The lists of uploaded files of one request (filenames, in upload order).
FileBatches == UNION {[1..n -> FileNames] : n \in 1..MaxFiles}

(* --------------------------- pure helpers ------------------------------ *)

\* Python's str < str: lexicographic by ord(), a proper prefix is smaller.
RECURSIVE StrLess(_, _)
StrLess(s, t) ==
    IF t = <<>> THEN FALSE
    ELSE IF s = <<>> THEN TRUE
    ELSE IF Ord(Head(s)) < Ord(Head(t)) THEN TRUE
    ELSE IF Ord(Head(s)) > Ord(Head(t)) THEN FALSE
    ELSE StrLess(Tail(s), Tail(t))

\* Insert x into the ascending list l, after the elements equal to it.
RECURSIVE Insert(_, _)
Insert(x, l) ==
    IF l = <<>> THEN <<x>>
    ELSE IF StrLess(x, Head(l)) THEN <<x>> \o l
    ELSE <<Head(l)>> \o Insert(x, Tail(l))

\* A listing that returns the names in the order they are stored in.
Sorted_AsStored(l) == l

\* sorted(filenames)
RECURSIVE Sorted(_)
Sorted(l) ==
    IF l = <<>> THEN <<>>
    ELSE Insert(l[Len(l)], Sorted(SubSeq(l, 1, Len(l) - 1)))

\* "|".join(updated_list)
RECURSIVE Join(_)
Join(l) ==
    IF l = <<>> THEN <<>>
    ELSE IF Len(l) = 1 THEN l[1]
    ELSE l[1] \o <<"|">> \o Join(Tail(l))

\* filenames_str.split('|'), scanning the string left to right: cur is the
\* piece being read, acc the pieces already cut.
RECURSIVE SplitFrom(_, _, _)
SplitFrom(str, cur, acc) ==
    IF str = <<>> THEN Append(acc, cur)
    ELSE IF Head(str) = "|" THEN SplitFrom(Tail(str), <<>>, Append(acc, cur))
    ELSE SplitFrom(Tail(str), Append(cur, Head(str)), acc)

Split(str) == SplitFrom(str, <<>>, <<>>)

\* The elements of a list, as a set.
ToSet(l) == {l[i] : i \in 1..Len(l)}

\* x in l
InList(x, l) == x \in ToSet(l)

\* No element occurs twice in the list.
NoDuplicates(l) == \A i, j \in 1..Len(l) : l[i] = l[j] => i = j

\* get_index_sync without its 'if not filenames_str' test.
GetIndexSync_NoEmptyCheck(metadatas) ==
    IF metadatas = <<>> THEN <<>> ELSE Sorted(Split(metadatas[1]))

\* get_index_sync: the sorted name list read from the sentinel record.
\* The record is <<>> when the store holds none, else <<filenames_str>>.
GetIndexSync(metadatas) ==
    IF metadatas = <<>> THEN <<>>
    ELSE IF metadatas[1] = <<>> THEN <<>>
    ELSE Sorted(Split(metadatas[1]))

\* An index update that takes every passed name for new.
TrulyNewFiles_All(new_filenames, current) == new_filenames

\* truly_new_files = [f for f in new_filenames if f not in current_filenames_set]
TrulyNewFiles(new_filenames, current) ==
    SelectSeq(new_filenames, LAMBDA f : ~InList(f, current))

\* updated_list.remove(filename): drops the first occurrence.
RECURSIVE ListRemove(_, _)
ListRemove(l, x) ==
    IF l = <<>> THEN <<>>
    ELSE IF Head(l) = x THEN Tail(l)
    ELSE <<Head(l)>> \o ListRemove(Tail(l), x)

\* n copies of x
RECURSIVE Repeat(_, _)
Repeat(x, n) == IF n = 0 THEN <<>> ELSE <<x>> \o Repeat(x, n - 1)

\* A slice that takes one chunk more: all_chunks[i:i + batch_size + 1].
BatchAfter_OneMore(all, done) ==
    SubSeq(all, done + 1,
           IF done + BatchSize + 1 < Len(all) THEN done + BatchSize + 1 ELSE Len(all))

\* all_chunks[i:i + batch_size] for the batch that starts after `done` chunks
BatchAfter(all, done) ==
    SubSeq(all, done + 1, IF done + BatchSize < Len(all) THEN done + BatchSize ELSE Len(all))

\* Number of elements of the list equal to x.
RECURSIVE CountIn(_, _)
CountIn(l, x) ==
    IF l = <<>> THEN 0
    ELSE (IF Head(l) = x THEN 1 ELSE 0) + CountIn(Tail(l), x)

\* An endpoint without its 'except HTTPException: raise e' clause: every
\* exception of the service becomes a 500.
EndpointStatus_NoReraise(o) ==
    IF o = "return" THEN 200 ELSE 500

\* The endpoint's handling of the service outcome: a returned value is a
\* 200 response, an HTTPException is re-raised unchanged, any other
\* exception becomes a 500.
EndpointStatus(o) ==
    CASE o = "return" -> 200
      [] o = "http404" -> 404
      [] o = "http500" -> 500
      [] o = "exception" -> 500

(* ------------------------------- state --------------------------------- *)

VARIABLES
    sentinel,            \* the record with id __DOCUMENT_INDEX__: <<>> or <<filenames_str>>
    chunks,              \* number of chunk records in the store, by original_filename
    lock,                \* index_update_lock: 0 when free, else the request holding it
    pc,                  \* each request's position
    kind,                \* each request's operation: "none", "ingest", "delete", "list"
    files,               \* ingest: the uploaded files (their filenames)
    all_chunks,          \* ingest: the chunks collected, each as its original_filename
    processed_filenames, \* ingest: files chunked without an error
    error_files,         \* ingest: files whose handling raised
    total_added,         \* ingest: chunks written so far
    tmp_path,            \* ingest: the file whose temporary path tmp_path holds (0: unbound)
    tmp_files,           \* ingest: the files whose temporary file exists on disk
    closed,              \* ingest: the files whose upload stream is closed
    filename,            \* delete: the name to delete
    names,               \* the list returned by the request's first index read
    updated_list,        \* the list the request is about to write to the index
    outcome,             \* how the service call ended: "none", "return", "http404", "http500", "exception"
    status,              \* the HTTP status the endpoint answers with (0: no answer yet)
    issued,              \* history: the store calls and lock acquisitions the request made
    before,              \* history: the chunk counts when the delete request arrived
    solo,                \* history: no other request was in progress during this one
    expected,            \* history: names added to the index and not removed since
    ops,                 \* requests started so far
    faults,              \* failures injected so far
    failed,              \* history: the store call of each request that raised ("none": none did)
    q_node,              \* query: the node of the graph about to run ("idle", a node, "END", "raised", "answered")
    q_state,             \* query: the GraphState of the execution (a dict: its keys vary)
    q_response,          \* query: the dict get_rag_response returned
    q_status,            \* query: the HTTP status of the query endpoint (0: no answer yet)
    q_trail,             \* history: the nodes and edge functions run by this execution, in order
    q_decision,          \* history: what check_relevance returned ("none" before)
    q_returned,          \* history: what each step of this execution returned, in order
    q_count              \* questions asked so far

shared == <<sentinel, chunks, lock>>
\* The temporary files and upload streams of the requests.
local_files == <<tmp_path, tmp_files, closed>>

\* The state of the query service.
query == <<q_node, q_state, q_response, q_status, q_trail, q_decision, q_returned,
          q_count>>

\* The state of the document manager service.
manager == <<sentinel, chunks, lock, pc, kind, files, all_chunks, processed_filenames,
             error_files, total_added, tmp_path, tmp_files, closed, filename, names,
             updated_list, outcome, status, issued, before, solo, expected, ops, faults,
             failed>>

vars == <<manager, query>>

NoChunks == [n \in FileNames |-> 0]

\* The collection lives in the Chroma server and outlives the service: the
\* service starts over an empty collection, or over one in which an earlier
\* run ingested the one-chunk file "a" (sentinel "a", one chunk of "a").
SeedNames == {<<>>, <<<<"a">>>>}

\* DocumentService.__init__: the lock is free and no request is in progress.
Init ==
    /\ \E seed \in SeedNames :
          /\ sentinel = (IF seed = <<>> THEN <<>> ELSE <<Join(seed)>>)
          /\ chunks = [n \in FileNames |-> CountIn(seed, n)]
          /\ expected = ToSet(seed)
    /\ lock = 0
    /\ pc = [r \in Req |-> "idle"]
    /\ kind = [r \in Req |-> "none"]
    /\ files = [r \in Req |-> <<>>]
    /\ all_chunks = [r \in Req |-> <<>>]
    /\ processed_filenames = [r \in Req |-> <<>>]
    /\ error_files = [r \in Req |-> <<>>]
    /\ total_added = [r \in Req |-> 0]
    /\ tmp_path = [r \in Req |-> 0]
    /\ tmp_files = [r \in Req |-> {}]
    /\ closed = [r \in Req |-> {}]
    /\ filename = [r \in Req |-> <<>>]
    /\ names = [r \in Req |-> <<>>]
    /\ updated_list = [r \in Req |-> <<>>]
    /\ outcome = [r \in Req |-> "none"]
    /\ status = [r \in Req |-> 0]
    /\ issued = [r \in Req |-> {}]
    /\ before = [r \in Req |-> NoChunks]
    /\ solo = [r \in Req |-> TRUE]
    /\ ops = 0
    /\ faults = 0
    /\ failed = [r \in Req |-> "none"]
    /\ q_node = "idle"
    /\ q_state = <<>>
    /\ q_response = <<>>
    /\ q_status = 0
    /\ q_trail = <<>>
    /\ q_decision = "none"
    /\ q_returned = <<>>
    /\ q_count = 0

\* The names get_all_document_names would return now.
Listed == GetIndexSync(sentinel)

InProgress(r) == pc[r] \notin {"idle", "done"}

\* A store call may fail while the failure budget lasts.
MayFail == faults < MaxFaults

\* The service call of request r ends with outcome o; the endpoint answers.
Ends(r, o) ==
    /\ pc' = [pc EXCEPT ![r] = "done"]
    /\ outcome' = [outcome EXCEPT ![r] = o]
    /\ status' = [status EXCEPT ![r] = EndpointStatus(o)]

\* The request goes on to position p.
Goes(r, p) ==
    /\ pc' = [pc EXCEPT ![r] = p]
    /\ outcome' = [outcome EXCEPT ![r] = "none"]
    /\ status' = [status EXCEPT ![r] = 0]

\* A lock whose acquire() never waits (the section runs without the lock).
LockFree_NeverWaits == TRUE

\* asyncio.Lock: acquire() completes only while the lock is not held.
LockFree == lock = 0

\* A locked section that leaves without releasing the lock.
ReleaseLock_Forgets == UNCHANGED lock

\* Leaving the 'async with self.index_update_lock' block, by its end, a
\* return or an exception: the lock is released.
ReleaseLock == lock' = 0

\* The slot of request r is free: it never ran, or its response was sent.
Free(r) == pc[r] \in {"idle", "done"}

\* A request of kind k arrives and takes the lowest free slot.
Arrives(r, k) ==
    /\ Free(r)
    /\ \A q \in Req : q < r => ~Free(q)
    /\ ops < MaxOps
    /\ ops' = ops + 1
    /\ kind' = [kind EXCEPT ![r] = k]
    /\ solo' = [q \in Req |->
                  IF q = r THEN \A o \in Req \ {r} : ~InProgress(o)
                  ELSE IF InProgress(q) THEN FALSE ELSE solo[q]]

\* The ingestion lists of the slot of request r are empty.
NoIngestLists(r) ==
    /\ files' = [files EXCEPT ![r] = <<>>]
    /\ all_chunks' = [all_chunks EXCEPT ![r] = <<>>]
    /\ processed_filenames' = [processed_filenames EXCEPT ![r] = <<>>]
    /\ error_files' = [error_files EXCEPT ![r] = <<>>]
    /\ total_added' = [total_added EXCEPT ![r] = 0]
    /\ tmp_path' = [tmp_path EXCEPT ![r] = 0]
    /\ tmp_files' = [tmp_files EXCEPT ![r] = {}]
    /\ closed' = [closed EXCEPT ![r] = {}]

(* ------------------------------ ingestion ------------------------------ *)

\* POST /ingest-to-rag with the files fs: process_and_store_files starts
\* with empty all_chunks, error_files and processed_filenames.
StartIngest(r) ==
    \E fs \in FileBatches :
        /\ Arrives(r, "ingest")
        /\ files' = [files EXCEPT ![r] = fs]
        /\ all_chunks' = [all_chunks EXCEPT ![r] = <<>>]
        /\ processed_filenames' = [processed_filenames EXCEPT ![r] = <<>>]
        /\ error_files' = [error_files EXCEPT ![r] = <<>>]
        /\ total_added' = [total_added EXCEPT ![r] = 0]
        /\ tmp_path' = [tmp_path EXCEPT ![r] = 0]
        /\ tmp_files' = [tmp_files EXCEPT ![r] = {}]
        /\ closed' = [closed EXCEPT ![r] = {}]
        /\ filename' = [filename EXCEPT ![r] = <<>>]
        /\ names' = [names EXCEPT ![r] = <<>>]
        /\ updated_list' = [updated_list EXCEPT ![r] = <<>>]
        /\ issued' = [issued EXCEPT ![r] = {}]
        /\ before' = [before EXCEPT ![r] = NoChunks]
        /\ Goes(r, "file")
        /\ failed' = [failed EXCEPT ![r] = "none"]
        /\ UNCHANGED <<shared, expected, faults>>
        /\ UNCHANGED query

\* A call that starts the batch loop whatever the number of chunks.
AfterFiles_AlwaysWrites(r, all) ==
    Goes(r, "batch")

\* What follows the per-file loop: the call returns (0, error_files) when
\* no chunk was collected, else the batch loop starts.
AfterFiles(r, all) ==
    IF all = <<>> THEN Ends(r, "return") ELSE Goes(r, "batch")

\* The loop goes on with the next file, or leaves the loop after the last.
NextFile(r, i, all) ==
    IF i < Len(files[r])
    THEN UNCHANGED <<pc, outcome, status>>
    ELSE AfterFiles(r, all)

\* A per-file handler whose failure ends the whole call.
AfterFileFailure_Aborts(r, i, all) ==
    Ends(r, "http500")

\* What follows a failure in the handling of file i: the except clause
\* records the name and the loop goes on.
AfterFileFailure(r, i, all) ==
    NextFile(r, i, all)

\* A stamping that gives every chunk the name of the first uploaded file.
ProcessFileSync_StampsFirst(fs, i, n) == Repeat(fs[1], n)

\* process_file_sync for the i-th uploaded file: the n chunks of the
\* splitter, each with metadata original_filename = file.filename (a chunk
\* is represented by that value).
ProcessFileSync(fs, i, n) == Repeat(fs[i], n)

\* The statements of the per-file try block that may raise: creating the
\* temporary file, reading the upload, writing the temporary file, loading
\* the document, splitting and stamping it.
FailStages == {"tempfile", "read", "write", "load", "split"}

\* Whether loading and splitting raise is decided by the file's content
\* (an unsupported suffix, a corrupt document); the other stages raise on
\* an input/output failure, which is drawn from the failure budget.
ByContent(stage) == stage \in {"load", "split"}

\* The temporary file exists once NamedTemporaryFile(delete=False) returned.
Created(stage) == stage # "tempfile"

\* tmp_path = tmp.name is reached when the read and the write succeeded.
Bound(stage) == stage \in {"load", "split"}

\* The finally clause: os.remove(tmp_path) when tmp_path is bound and that
\* path exists (path 0: tmp_path is not in locals()).
Finally(disk, path) ==
    IF path # 0 /\ path \in disk THEN disk \ {path} ELSE disk

\* One iteration of the per-file loop: the file is chunked and stamped
\* (n chunks, appended to all_chunks; the name to processed_filenames) or
\* its handling raises at one of the stages (the name to error_files); the
\* finally clause removes the temporary file tmp_path names and closes the
\* upload; the loop goes on with the next file either way.
ProcessFile(r) ==
    /\ pc[r] = "file"
    /\ LET i == Len(processed_filenames[r]) + Len(error_files[r]) + 1
           f == files[r][i]
       IN  /\ \/ \E n \in ChunkCounts :
                   LET all == all_chunks[r] \o ProcessFileSync(files[r], i, n)
                   IN  /\ all_chunks' = [all_chunks EXCEPT ![r] = all]
                       /\ processed_filenames' =
                             [processed_filenames EXCEPT ![r] = Append(@, f)]
                       /\ tmp_path' = [tmp_path EXCEPT ![r] = i]
                       /\ tmp_files' = [tmp_files EXCEPT ![r] = Finally(@ \cup {i}, i)]
                       /\ UNCHANGED <<error_files, faults>>
                       /\ NextFile(r, i, all)
              \/ \E stage \in FailStages :
                   LET path == IF Bound(stage) THEN i ELSE tmp_path[r]
                       disk == IF Created(stage) THEN tmp_files[r] \cup {i} ELSE tmp_files[r]
                   IN  /\ ByContent(stage) \/ MayFail
                       /\ faults' = (IF ByContent(stage) THEN faults ELSE faults + 1)
                       /\ error_files' = [error_files EXCEPT ![r] = Append(@, f)]
                       /\ tmp_path' = [tmp_path EXCEPT ![r] = path]
                       /\ tmp_files' = [tmp_files EXCEPT ![r] = Finally(disk, path)]
                       /\ UNCHANGED <<all_chunks, processed_filenames>>
                       /\ AfterFileFailure(r, i, all_chunks[r])
           /\ closed' = [closed EXCEPT ![r] = @ \cup {i}]
    /\ UNCHANGED <<shared, kind, files, total_added, filename, names, updated_list,
                   issued, before, solo, expected, ops>>
    /\ UNCHANGED failed
    /\ UNCHANGED query

\* A batch loop that logs a failed batch and carries on with the index
\* update.
AfterBatchFailure_CarriesOn(r) ==
    Goes(r, "idx_lock")

\* A batch loop that swallows the failure of a batch write and returns.
AfterBatchFailure_Returns(r) ==
    Ends(r, "return")

\* What follows a batch write that raised: the except clause of
\* process_and_store_files ends the call with HTTP 500.
AfterBatchFailure(r) ==
    Ends(r, "http500")

\* What follows the last batch: the index update when any file was processed.
AfterLastBatch(r) ==
    IF processed_filenames[r] # <<>>
    THEN Goes(r, "idx_lock")
    ELSE Ends(r, "return")

\* One iteration of the batch loop: vector_store.add_documents(batch).
WriteBatch(r) ==
    /\ pc[r] = "batch"
    /\ issued' = [issued EXCEPT ![r] = @ \cup {"add"}]
    /\ LET batch == BatchAfter(all_chunks[r], total_added[r])
       IN  \/ /\ chunks' = [n \in FileNames |-> chunks[n] + CountIn(batch, n)]
              /\ total_added' = [total_added EXCEPT ![r] = @ + Len(batch)]
              /\ IF total_added[r] + Len(batch) < Len(all_chunks[r])
                 THEN UNCHANGED <<pc, outcome, status>>
                 ELSE AfterLastBatch(r)
              /\ UNCHANGED faults
              /\ UNCHANGED failed
           \/ /\ MayFail
              /\ faults' = faults + 1
              /\ failed' = [failed EXCEPT ![r] = "add"]
              /\ AfterBatchFailure(r)
              /\ UNCHANGED <<chunks, total_added>>
    /\ UNCHANGED <<sentinel, lock, kind, files, all_chunks, processed_filenames,
                   error_files, filename, names, updated_list, before, solo,
                   expected, ops>>
    /\ UNCHANGED <<local_files, query>>

\* _update_document_index: async with self.index_update_lock.
AcquireForAdd(r) ==
    /\ pc[r] = "idx_lock"
    /\ LockFree
    /\ lock' = r
    /\ pc' = [pc EXCEPT ![r] = "idx_read"]
    /\ issued' = [issued EXCEPT ![r] = @ \cup {"lock"}]
    /\ UNCHANGED <<sentinel, chunks, kind, files, all_chunks, processed_filenames,
                   error_files, total_added, filename, names, updated_list, outcome,
                   status, before, solo, expected, ops, faults>>
    /\ UNCHANGED failed
    /\ UNCHANGED <<local_files, query>>

\* updated_list = current_filenames_list + truly_new_files
UpdatedListForAdd(current, new_filenames) ==
    current \o TrulyNewFiles(new_filenames, current)

\* The read made while holding the lock, and the no-op return when every
\* name is already listed.  A failed read leaves as HTTP 500; the lock is
\* released on the way out.
ReadForAdd(r) ==
    /\ pc[r] = "idx_read"
    /\ issued' = [issued EXCEPT ![r] = @ \cup {"get"}]
    /\ \/ LET current == Listed
          IN  /\ names' = [names EXCEPT ![r] = current]
              /\ IF TrulyNewFiles(processed_filenames[r], current) = <<>>
                 THEN /\ ReleaseLock
                      /\ Ends(r, "return")
                      /\ expected' = expected \cup ToSet(processed_filenames[r])
                      /\ UNCHANGED updated_list
                 ELSE /\ updated_list' = [updated_list EXCEPT ![r] =
                              UpdatedListForAdd(current, processed_filenames[r])]
                      /\ pc' = [pc EXCEPT ![r] = "idx_write"]
                      /\ UNCHANGED <<lock, outcome, status, expected>>
              /\ UNCHANGED faults
              /\ UNCHANGED failed
       \/ /\ MayFail
          /\ faults' = faults + 1
          /\ failed' = [failed EXCEPT ![r] = "get"]
          /\ ReleaseLock
          /\ Ends(r, "http500")
          /\ UNCHANGED <<names, updated_list, expected>>
    /\ UNCHANGED <<sentinel, chunks, kind, files, all_chunks, processed_filenames,
                   error_files, total_added, filename, before, solo, ops>>
    /\ UNCHANGED <<local_files, query>>

\* upsert_index_sync of _update_document_index, then the lock is released
\* and process_and_store_files returns (len(all_chunks), error_files).
WriteForAdd(r) ==
    /\ pc[r] = "idx_write"
    /\ issued' = [issued EXCEPT ![r] = @ \cup {"upsert"}]
    /\ ReleaseLock
    /\ \/ /\ sentinel' = <<Join(updated_list[r])>>
          /\ expected' = expected \cup ToSet(processed_filenames[r])
          /\ Ends(r, "return")
          /\ UNCHANGED faults
          /\ UNCHANGED failed
       \/ /\ MayFail
          /\ faults' = faults + 1
          /\ failed' = [failed EXCEPT ![r] = "upsert"]
          /\ Ends(r, "http500")
          /\ UNCHANGED <<sentinel, expected>>
    /\ UNCHANGED <<chunks, kind, files, all_chunks, processed_filenames, error_files,
                   total_added, filename, names, updated_list, before, solo, ops>>
    /\ UNCHANGED <<local_files, query>>

(* ------------------------------ deletion ------------------------------- *)

\* DELETE /documents/{filename}: delete_document_by_name reads the index
\* (outside the lock) and raises 404 when the name is not listed.
CheckExists(r) ==
    \E f \in FileNames :
        /\ Arrives(r, "delete")
        /\ NoIngestLists(r)
        /\ filename' = [filename EXCEPT ![r] = f]
        /\ updated_list' = [updated_list EXCEPT ![r] = <<>>]
        /\ issued' = [issued EXCEPT ![r] = {"get"}]
        /\ before' = [before EXCEPT ![r] = chunks]
        /\ \/ LET current_filenames == Listed
              IN  /\ names' = [names EXCEPT ![r] = current_filenames]
                  /\ IF ~InList(f, current_filenames)
                     THEN Ends(r, "http404")
                     ELSE Goes(r, "del_chunks")
                  /\ UNCHANGED faults
                  /\ failed' = [failed EXCEPT ![r] = "none"]
           \/ /\ MayFail
              /\ faults' = faults + 1
              /\ failed' = [failed EXCEPT ![r] = "get"]
              /\ names' = [names EXCEPT ![r] = <<>>]
              /\ Ends(r, "http500")
        /\ UNCHANGED <<shared, expected>>
        /\ UNCHANGED query

\* vector_store.delete(where={"original_filename": filename})
DeleteChunks(r) ==
    /\ pc[r] = "del_chunks"
    /\ issued' = [issued EXCEPT ![r] = @ \cup {"delete"}]
    /\ \/ /\ chunks' = [chunks EXCEPT ![filename[r]] = 0]
          /\ pc' = [pc EXCEPT ![r] = "del_lock"]
          /\ UNCHANGED <<outcome, status, faults, failed>>
       \/ /\ MayFail
          /\ faults' = faults + 1
          /\ failed' = [failed EXCEPT ![r] = "delete"]
          /\ Ends(r, "http500")
          /\ UNCHANGED chunks
    /\ UNCHANGED <<sentinel, lock, kind, files, all_chunks, processed_filenames,
                   error_files, total_added, filename, names, updated_list, before,
                   solo, expected, ops>>
    /\ UNCHANGED <<local_files, query>>

\* delete_document_by_name: async with self.index_update_lock.
AcquireForRemove(r) ==
    /\ pc[r] = "del_lock"
    /\ LockFree
    /\ lock' = r
    /\ pc' = [pc EXCEPT ![r] = "del_read"]
    /\ issued' = [issued EXCEPT ![r] = @ \cup {"lock"}]
    /\ UNCHANGED <<sentinel, chunks, kind, files, all_chunks, processed_filenames,
                   error_files, total_added, filename, names, updated_list, outcome,
                   status, before, solo, expected, ops, faults>>
    /\ UNCHANGED failed
    /\ UNCHANGED <<local_files, query>>

\* A locked section that answers a name it no longer finds with 404.
AlreadyRemoved_Raises(r) ==
    Ends(r, "http404")

\* The else branch of the locked section: the name is no longer listed,
\* the code logs a warning and the call returns.
AlreadyRemoved(r) ==
    Ends(r, "return")

\* The read made while holding the lock (updated_list is the list read);
\* updated_list.remove(filename) when the name is still listed, else the
\* call returns.
ReadForRemove(r) ==
    /\ pc[r] = "del_read"
    /\ issued' = [issued EXCEPT ![r] = @ \cup {"get"}]
    /\ \/ LET current == Listed
          IN  IF InList(filename[r], current)
              THEN /\ updated_list' = [updated_list EXCEPT ![r] =
                           ListRemove(current, filename[r])]
                   /\ pc' = [pc EXCEPT ![r] = "del_write"]
                   /\ UNCHANGED <<lock, outcome, status, expected, faults, failed>>
              ELSE /\ updated_list' = [updated_list EXCEPT ![r] = current]
                   /\ ReleaseLock
                   /\ AlreadyRemoved(r)
                   /\ expected' = expected \ {filename[r]}
                   /\ UNCHANGED faults
                   /\ UNCHANGED failed
       \/ /\ MayFail
          /\ faults' = faults + 1
          /\ failed' = [failed EXCEPT ![r] = "get"]
          /\ ReleaseLock
          /\ Ends(r, "http500")
          /\ UNCHANGED <<updated_list, expected>>
    /\ UNCHANGED <<sentinel, chunks, kind, files, all_chunks, processed_filenames,
                   error_files, total_added, filename, names, before, solo, ops>>
    /\ UNCHANGED <<local_files, query>>

\* upsert_index_sync of delete_document_by_name, then the lock is released.
\* A failed upsert leaves the service as a plain exception.
WriteForRemove(r) ==
    /\ pc[r] = "del_write"
    /\ issued' = [issued EXCEPT ![r] = @ \cup {"upsert"}]
    /\ ReleaseLock
    /\ \/ /\ sentinel' = <<Join(updated_list[r])>>
          /\ expected' = expected \ {filename[r]}
          /\ Ends(r, "return")
          /\ UNCHANGED faults
          /\ UNCHANGED failed
       \/ /\ MayFail
          /\ faults' = faults + 1
          /\ failed' = [failed EXCEPT ![r] = "upsert"]
          /\ Ends(r, "exception")
          /\ UNCHANGED <<sentinel, expected>>
    /\ UNCHANGED <<chunks, kind, files, all_chunks, processed_filenames, error_files,
                   total_added, filename, names, updated_list, before, solo, ops>>
    /\ UNCHANGED <<local_files, query>>

(* ------------------------------- listing ------------------------------- *)

\* GET /documents: get_all_document_names, answered with the list read.
ListDocuments(r) ==
    /\ Arrives(r, "list")
    /\ NoIngestLists(r)
    /\ filename' = [filename EXCEPT ![r] = <<>>]
    /\ updated_list' = [updated_list EXCEPT ![r] = <<>>]
    /\ issued' = [issued EXCEPT ![r] = {"get"}]
    /\ before' = [before EXCEPT ![r] = NoChunks]
    /\ \/ /\ names' = [names EXCEPT ![r] = Listed]
          /\ Ends(r, "return")
          /\ UNCHANGED faults
          /\ failed' = [failed EXCEPT ![r] = "none"]
       \/ /\ MayFail
          /\ faults' = faults + 1
          /\ failed' = [failed EXCEPT ![r] = "get"]
          /\ names' = [names EXCEPT ![r] = <<>>]
          /\ Ends(r, "http500")
    /\ UNCHANGED <<shared, expected>>
    /\ UNCHANGED query

(* ------------------------------ responses ------------------------------ *)

\* A return value whose count is the number of files with errors.
ServiceReturn_CountsFiles(all, errors) == <<Len(errors), errors>>

\* The value process_and_store_files returns: (0, error_files) when no chunk
\* was collected, (len(all_chunks), error_files) after the index update.
ServiceReturn(all, errors) == <<Len(all), errors>>

\* The value the ingestion call of request r returned (<<>>: it has not
\* returned, or it raised).
Returned(r) ==
    IF kind[r] = "ingest" /\ pc[r] = "done" /\ outcome[r] = "return"
    THEN ServiceReturn(all_chunks[r], error_files[r])
    ELSE <<>>

\* An ingestion response that counts every uploaded file as processed.
RAGIngestionResponse_CountsUploads(fs, ret) ==
    [body |-> "ingestion", total_chunks_added |-> ret[1],
     processed_files_count |-> Len(fs), files_with_errors |-> ret[2]]

\* ingest_documents_to_rag: processed_count = len(files) - len(files_with_errors)
RAGIngestionResponse(fs, ret) ==
    [body |-> "ingestion", total_chunks_added |-> ret[1],
     processed_files_count |-> Len(fs) - Len(ret[2]), files_with_errors |-> ret[2]]

\* list_ingested_documents: count = len(document_names)
DocumentListResponse(document_names) ==
    [body |-> "documents", count |-> Len(document_names), documents |-> document_names]

\* delete_document: the name deleted
DocumentDeleteResponse(fn) ==
    [body |-> "deleted", deleted_filename |-> fn]

\* The body of an HTTPException: a detail string only.
ErrorResponse == [body |-> "detail"]

\* An endpoint that reports the per-file lists also when the service raised.
Response_ReportsOnError(r) ==
    IF pc[r] # "done" THEN [body |-> "none"]
    ELSE RAGIngestionResponse(files[r], ServiceReturn(all_chunks[r], error_files[r]))

\* The body the endpoint answers request r with.
Response(r) ==
    IF pc[r] # "done" THEN [body |-> "none"]
    ELSE IF outcome[r] # "return" THEN ErrorResponse
    ELSE CASE kind[r] = "ingest" -> RAGIngestionResponse(files[r], Returned(r))
           [] kind[r] = "list" -> DocumentListResponse(names[r])
           [] kind[r] = "delete" -> DocumentDeleteResponse(filename[r])

Next ==
    \E r \in Req :
        \/ StartIngest(r)
        \/ ProcessFile(r)
        \/ WriteBatch(r)
        \/ AcquireForAdd(r)
        \/ ReadForAdd(r)
        \/ WriteForAdd(r)
        \/ CheckExists(r)
        \/ DeleteChunks(r)
        \/ AcquireForRemove(r)
        \/ ReadForRemove(r)
        \/ WriteForRemove(r)
        \/ ListDocuments(r)

Spec == Init /\ [][Next]_vars

(* ---------------------------- query workflow ---------------------------- *)

\* page_content[:200] in get_rag_response
SnippetLen == 200

\* The questions a client may ask.
Questions == {"q1", "q2"}

\* The texts the language model may generate.
Generations == {"g1", "g2"}

\* A text of n characters.
Text(n) == [i \in 1..n |-> "x"]

\* The page contents a chunk may have: shorter than the snippet length,
\* exactly as long, and longer.
Contents == {Text(2), Text(SnippetLen), Text(SnippetLen + 1)}

\* page_content of the index record written by upsert_index_sync.
IndexContent == <<"i", "n", "d", "e", "x">>

\* The records of the collection the retriever searches: the chunk records
\* (metadata original_filename) of the names that have chunks, and the
\* index record (metadata filenames) when it exists.
Collection ==
    {[metadata |-> [original_filename |-> n], page_content |-> c] :
        n \in {m \in FileNames : chunks[m] > 0}, c \in Contents}
    \cup (IF sentinel = <<>> THEN {}
          ELSE {[metadata |-> [filenames |-> sentinel[1]], page_content |-> IndexContent]})

\* What retriever.ainvoke may return: up to MaxDocs records, ranked.
Retrievals == UNION {[1..n -> Collection] : n \in 0..MaxDocs}

\* dict.get(key, default)
Get(d, key, default) == IF key \in DOMAIN d THEN d[key] ELSE default

\* A state merge in which a key already present keeps its value.
Merge_KeepsState(state, update) ==
    [k \in DOMAIN state \cup DOMAIN update |->
        IF k \in DOMAIN state THEN state[k] ELSE update[k]]

\* The graph state after a node returned the dict update.
Merge(state, update) ==
    [k \in DOMAIN state \cup DOMAIN update |->
        IF k \in DOMAIN update THEN update[k] ELSE state[k]]

\* workflow.set_entry_point("retrieve")
EntryPoint == "retrieve"

\* A graph whose retrieve node leads straight to END.
Edge_RetrieveToEnd(node) ==
    CASE node = "retrieve" -> "END"
      [] node = "generate" -> "check_relevance"
      [] node = "rewrite" -> "END"

\* A graph whose rewrite node leads back to generate.
Edge_RewriteToGenerate(node) ==
    CASE node = "retrieve" -> "generate"
      [] node = "generate" -> "check_relevance"
      [] node = "rewrite" -> "generate"

\* The edges of the graph: retrieve -> generate, generate -> (its
\* conditional edges, decided by check_relevance), rewrite -> END.
Edge(node) ==
    CASE node = "retrieve" -> "generate"
      [] node = "generate" -> "check_relevance"
      [] node = "rewrite" -> "END"

\* The conditional edges of generate: "useful" -> END, "not_useful" -> rewrite.
ConditionalEdge(decision) ==
    CASE decision = "useful" -> "END"
      [] decision = "not_useful" -> "rewrite"

\* A node returned the dict update: the state is merged and the graph
\* follows the node's edge.
NodeReturns(node, update) ==
    /\ q_state' = Merge(q_state, update)
    /\ q_trail' = Append(q_trail, node)
    /\ q_returned' = Append(q_returned, update)
    /\ q_node' = Edge(node)
    /\ UNCHANGED <<q_response, q_status, q_decision, q_count>>

\* An oracle call of the node raised: ainvoke raises, the state is lost.
NodeRaises(node) ==
    /\ q_trail' = Append(q_trail, node)
    /\ q_node' = "raised"
    /\ UNCHANGED <<q_state, q_response, q_status, q_decision, q_returned, q_count>>

\* POST /query: get_rag_response starts the graph with the question (the
\* request_id, which only labels log lines, is left out of the state).
AskQuestion ==
    /\ q_node \in {"idle", "answered"}
    /\ q_count < MaxQueries
    /\ \E question \in Questions :
          q_state' = [question |-> question]
    /\ q_node' = EntryPoint
    /\ q_trail' = <<>>
    /\ q_decision' = "none"
    /\ q_returned' = <<>>
    /\ q_response' = <<>>
    /\ q_status' = 0
    /\ q_count' = q_count + 1
    /\ UNCHANGED manager

\* retrieve_documents
RetrieveDocuments ==
    /\ q_node = "retrieve"
    /\ \/ \E documents \in Retrievals :
             NodeReturns("retrieve", [documents |-> documents,
                                      question |-> q_state.question])
       \/ NodeRaises("retrieve")
    /\ UNCHANGED manager

\* generate_answer
GenerateAnswer ==
    /\ q_node = "generate"
    /\ \/ \E generation \in Generations :
             NodeReturns("generate", [documents |-> q_state.documents,
                                      question |-> q_state.question,
                                      generation |-> generation])
       \/ NodeRaises("generate")
    /\ UNCHANGED manager

\* check_relevance, the path function of generate's conditional edges
CheckRelevance ==
    /\ q_node = "check_relevance"
    /\ \/ \E is_relevant \in BOOLEAN :
             LET decision == IF is_relevant THEN "useful" ELSE "not_useful"
             IN  /\ q_decision' = decision
                 /\ q_trail' = Append(q_trail, "check_relevance")
                 /\ q_returned' = Append(q_returned, [decision |-> decision])
                 /\ q_node' = ConditionalEdge(decision)
                 /\ UNCHANGED <<q_state, q_response, q_status, q_count>>
       \/ NodeRaises("check_relevance")
    /\ UNCHANGED manager

\* rewrite_answer
RewriteAnswer ==
    /\ q_node = "rewrite"
    /\ \/ \E generation \in Generations :
             NodeReturns("rewrite", [documents |-> q_state.documents,
                                     question |-> q_state.question,
                                     generation |-> generation])
       \/ NodeRaises("rewrite")
    /\ UNCHANGED manager

\* The first n characters of a text.
Take(text, n) == SubSeq(text, 1, IF Len(text) < n THEN Len(text) ELSE n)

\* A source entry whose snippet is the whole page content and the ellipsis.
Source_Untruncated(doc) ==
    [filename |-> Get(doc.metadata, "original_filename", "Unknown source"),
     page_content_snippet |-> doc.page_content \o <<".", ".", ".">>]

\* One entry of "sources": the owning document's name and the snippet
\* doc.page_content[:200] + "..."
Source(doc) ==
    [filename |-> Get(doc.metadata, "original_filename", "Unknown source"),
     page_content_snippet |-> Take(doc.page_content, SnippetLen) \o <<".", ".", ".">>]

\* A response whose sources are listed in the reverse of the retrieved order.
AnswerResponse_ReversedSources(final_state) ==
    LET documents == Get(final_state, "documents", <<>>)
    IN  [answer |-> Get(final_state, "generation",
                        "Sorry, an error occurred while processing your request."),
         sources |-> [i \in 1..Len(documents) |->
                         Source(documents[Len(documents) + 1 - i])]]

\* The response get_rag_response builds from the final state of the graph.
AnswerResponse(final_state) ==
    LET documents == Get(final_state, "documents", <<>>)
    IN  [answer |-> Get(final_state, "generation",
                        "Sorry, an error occurred while processing your request."),
         sources |-> [i \in 1..Len(documents) |-> Source(documents[i])]]

\* A failure dict without the "error" key.
FailureResponse_WithoutFlag ==
    [answer |-> "Sorry, an internal error occurred. Please try again later.",
     sources |-> <<>>]

\* The response of the except clause of get_rag_response.
FailureResponse ==
    [answer |-> "Sorry, an internal error occurred. Please try again later.",
     sources |-> <<>>,
     error |-> "An internal error prevented the request from completing."]

\* An endpoint that answers 500 only when the dict has no answer.
QueryStatus_TestsAnswer(response_dict) ==
    IF "answer" \in DOMAIN response_dict THEN 200 ELSE 500

\* ask_question: 500 when the dict has the key "error", else the answer.
QueryStatus(response_dict) ==
    IF "error" \in DOMAIN response_dict THEN 500 ELSE 200

\* The graph reached END or raised: get_rag_response returns its dict and
\* the endpoint answers.
Respond ==
    /\ q_node \in {"END", "raised"}
    /\ LET response == IF q_node = "END" THEN AnswerResponse(q_state)
                       ELSE FailureResponse
       IN  /\ q_response' = response
           /\ q_status' = QueryStatus(response)
    /\ q_node' = "answered"
    /\ UNCHANGED <<q_state, q_trail, q_decision, q_returned, q_count>>
    /\ UNCHANGED manager

QueryNext ==
    \/ AskQuestion
    \/ RetrieveDocuments
    \/ GenerateAnswer
    \/ CheckRelevance
    \/ RewriteAnswer
    \/ Respond

QuerySpec == Init /\ [][QueryNext]_vars

(* ------------------------------- claims -------------------------------- *)

\* The positions at which a request holds the index lock: about to make
\* its in-lock read, or between that read and the end of its write.
InLockSection == {"idx_read", "idx_write", "del_read", "del_write"}

\* The positions at which a request waits for the index lock.
AtLock == {"idx_lock", "del_lock"}

\* C2: index mutations are mutually exclusive: in every reachable state at
\* most one request, of the add path and the remove path together, is
\* between acquiring the lock for its in-lock read of the sentinel record
\* and the completion of its sentinel write, and that request holds the lock.
C2_MutualExclusion ==
    /\ Cardinality({r \in Req : pc[r] \in InLockSection}) <= 1
    /\ \A r \in Req : pc[r] \in InLockSection <=> lock = r

\* C2 witness: an addition is between its in-lock read and its write while
\* a removal waits for the lock.
C2_Witness ==
    \E r, q \in Req : pc[r] = "idx_write" /\ pc[q] = "del_lock"

\* Request r has ended and no other request was in progress at any time
\* since it arrived (a later arrival would have taken its slot).
RanAlone(r) == pc[r] = "done" /\ solo[r]

\* The existence check of delete request r could not read the index.
CheckReadFailed(r) == outcome[r] = "http500" /\ issued[r] = {"get"}

\* C7: a delete request ends as not-found exactly when its existence check
\* read the index and did not find the name.  The endpoint passes the 404
\* on unchanged, and the request made no store call but that one read: no
\* chunk delete, no lock acquisition and no index write, so the index
\* record and every chunk are as they were when it arrived.
C7_NotFoundLeavesStoreAlone ==
    \A r \in Req : kind[r] = "delete" =>
        /\ outcome[r] = "http404"
              <=> (~InList(filename[r], names[r]) /\ ~CheckReadFailed(r))
        /\ outcome[r] = "http404"
              => /\ pc[r] = "done"
                 /\ status[r] = 404
                 /\ issued[r] = {"get"}
                 /\ (RanAlone(r) => chunks = before[r] /\ Listed = names[r])

\* C7 witness: a delete of an unlisted name has been answered with 404
\* while the index lists another document that has chunks.
C7_Witness ==
    \E r \in Req :
        /\ kind[r] = "delete" /\ pc[r] = "done" /\ status[r] = 404
        /\ Listed # <<>>
        /\ \E n \in FileNames : InList(n, Listed) /\ chunks[n] > 0

\* A batch write of ingestion request r has failed: the call ended with
\* chunks still unwritten.
BatchFailed(r) ==
    kind[r] = "ingest" /\ pc[r] = "done" /\ total_added[r] < Len(all_chunks[r])

\* C9 (as amended): an ingestion call in which a batch write failed makes
\* no index update: while not every collected chunk has been written the
\* call has not acquired the index lock, read the index or written it, and
\* a call that ended in that condition ended with HTTP 500.  So the call
\* adds no name to the index; a name is listed after it only if it was
\* listed already.
C9_NoIndexUpdateAfterFailedBatch ==
    \A r \in Req :
        (kind[r] = "ingest" /\ total_added[r] < Len(all_chunks[r])) =>
            /\ pc[r] \in {"file", "batch", "done"}
            /\ issued[r] \subseteq {"add"}
            /\ pc[r] = "done" => outcome[r] = "http500" /\ status[r] = 500

\* C9 witness: the second batch of a call failed after its first batch was
\* written; a document of the call has chunks in the store and is not listed.
C9_Witness ==
    \E r \in Req :
        /\ BatchFailed(r)
        /\ total_added[r] > 0
        /\ \E f \in ToSet(processed_filenames[r]) : chunks[f] > 0 /\ ~InList(f, Listed)

\* C9 (as stated): after an ingestion call in which a batch write failed,
\* no document chunked by the call appears in get_all_document_names.
C9_Original ==
    \A r \in Req :
        (BatchFailed(r) /\ RanAlone(r)) =>
            \A f \in ToSet(processed_filenames[r]) : ~InList(f, Listed)

\* No request is in progress.
Quiescent == \A r \in Req : ~InProgress(r)

\* Request r has completed an index addition (the write, or the no-op
\* return) and returned.
AddedOk(r) ==
    /\ kind[r] = "ingest" /\ pc[r] = "done" /\ outcome[r] = "return"
    /\ "lock" \in issued[r]

\* C1 (as stated): once concurrent index additions with pairwise disjoint
\* name lists have all completed, get_all_document_names returns exactly
\* the names listed before plus the union of the lists.
C1_Original ==
    \A r, q \in Req :
        (/\ r # q
         /\ AddedOk(r) /\ AddedOk(q)
         /\ ~solo[r] \/ ~solo[q]
         /\ ToSet(processed_filenames[r]) \cap ToSet(processed_filenames[q]) = {})
        => ToSet(Listed) = expected

\* C3 (as stated): after any sequence of index additions and removals,
\* get_all_document_names returns exactly the names added and not removed
\* since, each once.
C3_Original ==
    Quiescent => ToSet(Listed) = expected /\ NoDuplicates(Listed)

\* The name holds no delimiter character.
PlainName(f) == \A i \in 1..Len(f) : f[i] # "|"

\* The names held by the sentinel record, in stored order.
SentinelNames ==
    IF sentinel = <<>> THEN <<>>
    ELSE IF sentinel[1] = <<>> THEN <<>>
    ELSE Split(sentinel[1])

\* C4 (as stated, for batches of delimiter-free filenames): the name list
\* held by the sentinel record contains each name at most once; no index
\* write of an ingestion batch, a batch with two files of the same name
\* included, puts a name twice into a list that held each name once.
C4_Original ==
    [][\A r \in Req :
          (/\ pc[r] = "idx_write"
           /\ \A i \in 1..Len(files[r]) : PlainName(files[r][i])
           /\ NoDuplicates(SentinelNames))
          => NoDuplicates(SentinelNames')]_vars

\* The original_filename values that have at least one chunk in the store.
ChunkedNames == {n \in FileNames : chunks[n] > 0}

\* C5 (as stated, on runs where no store call has failed and the call's
\* filenames hold no delimiter): at the end of a successful ingestion or
\* deletion call, no other request in progress, the names in the index are
\* exactly the original_filename values that have at least one chunk.
C5_Original ==
    \A r \in Req :
        (/\ RanAlone(r) /\ kind[r] \in {"ingest", "delete"} /\ outcome[r] = "return"
         /\ faults = 0
         /\ \A i \in 1..Len(files[r]) : PlainName(files[r][i]))
        => ToSet(Listed) = ChunkedNames

\* C6 (as stated): after a successful delete of a name the store holds no
\* chunk of that name, the listing does not contain it, and every other
\* listed name and every chunk of other documents is as before the call.
C6_Original ==
    \A r \in Req :
        (RanAlone(r) /\ kind[r] = "delete" /\ outcome[r] = "return") =>
            /\ chunks[filename[r]] = 0
            /\ ~InList(filename[r], Listed)
            /\ \A n \in FileNames \ {filename[r]} : chunks[n] = before[r][n]
            /\ ToSet(Listed) \ {filename[r]} = ToSet(names[r]) \ {filename[r]}

\* C8 (as stated): when a delete call has ended, with success or with an
\* error, either the name is absent from the index and has no chunks, or
\* it is still listed and all its chunks are still stored.
C8_Original ==
    \A r \in Req :
        (RanAlone(r) /\ kind[r] = "delete") =>
            \/ ~InList(filename[r], Listed) /\ chunks[filename[r]] = 0
            \/ InList(filename[r], Listed) /\ chunks[filename[r]] = before[r][filename[r]]

\* C10 (as stated): when an ingestion call that wrote chunks returns, the
\* listing contains the filename of every file that was chunked, and a
\* name that only files of the error list bear is listed only if the call
\* found it listed.
C10_Original ==
    [][\A r \in Req :
          (/\ kind[r] = "ingest" /\ pc[r] # "done" /\ pc'[r] = "done"
           /\ outcome'[r] = "return" /\ total_added'[r] > 0)
          => /\ \A f \in ToSet(processed_filenames[r]) : InList(f, Listed')
             /\ \A f \in ToSet(error_files[r]) \ ToSet(processed_filenames[r]) :
                    InList(f, Listed') => InList(f, names'[r])]_vars

RemovedNothing(r) ==
    /\ kind[r] = "delete" /\ pc[r] = "done"
    /\ "lock" \in issued[r] /\ "upsert" \notin issued[r]

Ascending(l) == \A i, j \in 1..Len(l) : i < j => ~StrLess(l[j], l[i])

\* C12: get_all_document_names returns its names in ascending
\* lexicographic order in every index state, whatever order they were
\* stored in; so does every answered list request.
C12_ListingIsSorted ==
    /\ Ascending(Listed)
    /\ \A r \in Req : (kind[r] = "list" /\ pc[r] = "done") => Ascending(names[r])

\* C12 witness: a list request was answered with two or more names while
\* the record stores them in another order than the one returned.
C12_Witness ==
    \E r \in Req :
        /\ kind[r] = "list" /\ pc[r] = "done" /\ outcome[r] = "return"
        /\ Len(names[r]) >= 2
        /\ names[r] = Listed
        /\ Split(sentinel[1]) # Listed

\* C13: with no sentinel record, or one with an empty name value,
\* get_all_document_names returns the empty list, without an error and with
\* no store call but the read, and the list endpoint answers count 0 and no
\* documents; the count of every list response is the length of its list.
C13_EmptyIndexListsNothing ==
    \A r \in Req :
        (kind[r] = "list" /\ pc[r] = "done") =>
            /\ issued[r] = {"get"}
            /\ outcome[r] \in {"return", "http500"}
            /\ outcome[r] = "http500" => faults > 0
            /\ outcome[r] = "return" =>
                  /\ status[r] = 200
                  /\ Response(r).documents = names[r]
                  /\ Response(r).count = Len(Response(r).documents)
                  /\ solo[r] =>
                        /\ names[r] = Listed
                        /\ (sentinel = <<>> \/ sentinel = << <<>> >>) =>
                              Response(r) = [body |-> "documents", count |-> 0,
                                             documents |-> <<>>]

\* C13 witness: a list request was answered with count 0 while the sentinel
\* record exists with an empty name value.
C13_Witness ==
    \E r \in Req :
        /\ kind[r] = "list" /\ pc[r] = "done" /\ outcome[r] = "return" /\ solo[r]
        /\ sentinel = << <<>> >>
        /\ Response(r).count = 0

\* fs is an order-preserving merge of the lists ps and es: every element
\* of fs is taken by exactly one of them.
RECURSIVE IsSplit(_, _, _)
IsSplit(fs, ps, es) ==
    IF fs = <<>> THEN ps = <<>> /\ es = <<>>
    ELSE \/ ps # <<>> /\ Head(ps) = Head(fs) /\ IsSplit(Tail(fs), Tail(ps), es)
         \/ es # <<>> /\ Head(es) = Head(fs) /\ IsSplit(Tail(fs), ps, Tail(es))

\* The number of files of request r handled so far.
Handled(r) == Len(processed_filenames[r]) + Len(error_files[r])

\* C14: a failure while handling one file never aborts the batch: the call
\* does not end inside the per-file phase, every file is handled, and the
\* files handled are recorded each in exactly one of processed_filenames
\* and error_files.
C14_EveryFileHandledOnce ==
    \A r \in Req :
        kind[r] = "ingest" =>
            /\ Handled(r) <= Len(files[r])
            /\ IsSplit(SubSeq(files[r], 1, Handled(r)), processed_filenames[r],
                       error_files[r])
            /\ pc[r] = "file" <=> Handled(r) < Len(files[r])
            /\ pc[r] = "file" => outcome[r] = "none"

\* C14 witness: the per-file phase is over, the first file failed and the
\* second file was processed.
C14_Witness ==
    \E r \in Req :
        /\ kind[r] = "ingest" /\ pc[r] # "file" /\ Len(files[r]) = 2
        /\ error_files[r] = <<files[r][1]>>
        /\ processed_filenames[r] = <<files[r][2]>>
        /\ all_chunks[r] # <<>>

\* The store as it was before any request: one of the initial collections.
Untouched ==
    \E seed \in SeedNames :
        /\ sentinel = (IF seed = <<>> THEN <<>> ELSE <<Join(seed)>>)
        /\ chunks = [n \in FileNames |-> CountIn(seed, n)]

\* C15: when the whole batch produced zero chunks the call returns
\* (0, error_files) having made no store call and never taken the lock; the
\* store is untouched.
C15_ZeroChunksTouchNothing ==
    \A r \in Req :
        (kind[r] = "ingest" /\ pc[r] # "file" /\ all_chunks[r] = <<>>) =>
            /\ pc[r] = "done" /\ outcome[r] = "return" /\ status[r] = 200
            /\ Returned(r) = <<0, error_files[r]>>
            /\ issued[r] = {}
            /\ total_added[r] = 0
            /\ lock # r
            /\ ops = 1 => Untouched

\* C15 witness: a call has returned with zero chunks after one file was
\* processed (to no chunk) and another failed.
C15_Witness ==
    \E r \in Req :
        /\ kind[r] = "ingest" /\ pc[r] = "done" /\ all_chunks[r] = <<>>
        /\ processed_filenames[r] # <<>> /\ error_files[r] # <<>>
        /\ Listed # <<>>

\* C16 (as stated): every ingestion call, also one in which a batch write or
\* the index update fails, ends with a result that tells the per-file
\* outcome.
C16_Original ==
    \A r \in Req :
        (kind[r] = "ingest" /\ pc[r] = "done") => Response(r).body = "ingestion"

\* C16 (amended): an ingestion call that returns answers with the per-file
\* outcome (the error list and the processed count), also when some files
\* failed; a call in which a store write or the index update fails answers
\* HTTP 500 with a detail string only.
C16_PerFileOutcomeUnlessStoreFails ==
    \A r \in Req :
        (kind[r] = "ingest" /\ pc[r] = "done") =>
            /\ outcome[r] = "return" =>
                  /\ status[r] = 200
                  /\ Response(r).body = "ingestion"
                  /\ Response(r).files_with_errors = error_files[r]
                  /\ Response(r).processed_files_count = Len(processed_filenames[r])
            /\ outcome[r] # "return" =>
                  /\ outcome[r] = "http500" /\ status[r] = 500
                  /\ Response(r) = ErrorResponse
                  /\ issued[r] # {}
                  /\ faults > 0

\* C16 witness: a call in which one file failed and another was chunked has
\* ended with HTTP 500.
C16_Witness ==
    \E r \in Req :
        /\ kind[r] = "ingest" /\ pc[r] = "done" /\ status[r] = 500
        /\ processed_filenames[r] # <<>> /\ error_files[r] # <<>>

\* C17 (as stated): when the handling of a file has ended, on every exit
\* path, its temporary file no longer exists and its upload is closed.
C17_Original ==
    \A r \in Req :
        kind[r] = "ingest" =>
            /\ tmp_files[r] = {}
            /\ closed[r] = 1..Handled(r)

\* The names whose chunk count the ingestion call r accounts for: the list
\* it read under the lock, or the present listing when it made no read.
ListedBefore(r) == IF "get" \in issued[r] THEN names[r] ELSE Listed

\* C18: on a successful return the first component is the number of chunk
\* records the call wrote (the chunks of the processed files) and the second
\* lists the files whose handling failed, in upload order.
C18_ReturnContract ==
    \A r \in Req :
        (kind[r] = "ingest" /\ pc[r] = "done" /\ outcome[r] = "return") =>
            /\ Returned(r)[1] = total_added[r]
            /\ Returned(r)[1] = Len(all_chunks[r])
            /\ \A n \in FileNames :
                  CountIn(all_chunks[r], n) > 0 => InList(n, processed_filenames[r])
            /\ Returned(r)[2] = error_files[r]
            /\ IsSplit(files[r], processed_filenames[r], Returned(r)[2])
            /\ ops = 1 =>
                  \A n \in FileNames :
                      chunks[n] = CountIn(ListedBefore(r), n) + CountIn(all_chunks[r], n)

\* C18 witness: a call returned a count of more than one batch and a
\* non-empty error list.
C18_Witness ==
    \E r \in Req :
        /\ kind[r] = "ingest" /\ pc[r] = "done" /\ outcome[r] = "return"
        /\ Returned(r)[1] >= BatchSize
        /\ Returned(r)[2] # <<>>

\* C19: the ingestion response reports processed_files_count = uploaded
\* files minus files with errors, so the two add up to the number of
\* uploaded files, and total_chunks_added is the count the service returned.
C19_ResponseCounts ==
    \A r \in Req :
        (kind[r] = "ingest" /\ pc[r] = "done" /\ outcome[r] = "return") =>
            /\ Response(r).processed_files_count + Len(Response(r).files_with_errors)
                  = Len(files[r])
            /\ Response(r).total_chunks_added = Returned(r)[1]
            /\ Response(r).files_with_errors = Returned(r)[2]

\* C19 witness: an ingestion response reports one processed file, one file
\* with errors and a positive chunk count.
C19_Witness ==
    \E r \in Req :
        /\ kind[r] = "ingest" /\ pc[r] = "done" /\ outcome[r] = "return"
        /\ Response(r).processed_files_count = 1
        /\ Len(Response(r).files_with_errors) = 1
        /\ Response(r).total_chunks_added > 0

\* s is a prefix of t.
IsPrefix(s, t) == Len(s) <= Len(t) /\ s = SubSeq(t, 1, Len(s))

\* The execution raised at one of its oracle calls.
OracleFailed == q_node = "raised" \/ (q_node = "answered" /\ q_status = 500)

\* C20: an execution of the query workflow runs retrieve, generate and
\* check_relevance, each once and in that order, and then ends or runs
\* rewrite once and ends: the steps run are always a prefix of that
\* sequence, rewrite runs exactly when the decision was "not_useful", and an
\* execution without oracle failure ends after three or four steps.
C20_WorkflowOrder ==
    /\ IsPrefix(q_trail, <<"retrieve", "generate", "check_relevance", "rewrite">>)
    /\ Len(q_trail) = 4 => q_decision = "not_useful"
    /\ (q_node \in {"END", "answered"} /\ ~OracleFailed) =>
          /\ Len(q_trail) >= 3
          /\ Len(q_trail) = 3 <=> q_decision = "useful"
    /\ (q_node \notin {"idle", "raised", "answered"}) =>
          q_node = (CASE Len(q_trail) = 0 -> "retrieve"
                      [] Len(q_trail) = 1 -> "generate"
                      [] Len(q_trail) = 2 -> "check_relevance"
                      [] Len(q_trail) = 3 ->
                            (IF q_decision = "useful" THEN "END" ELSE "rewrite")
                      [] Len(q_trail) = 4 -> "END")

\* C20 witness: an execution was answered after running all four steps.
C20_Witness ==
    /\ q_node = "answered" /\ q_status = 200
    /\ q_trail = <<"retrieve", "generate", "check_relevance", "rewrite">>

\* The execution was answered without an oracle failure.
Succeeded == q_node = "answered" /\ q_status = 200

\* The candidate answer: the generation generate_answer returned.
Candidate == q_returned[2].generation

\* The generation rewrite_answer returned.
Rewritten == q_returned[4].generation

\* C21 (as stated): the final answer of an execution without oracle failure
\* is the candidate of generate exactly when check_relevance judged it
\* grounded; after "not_useful" the answer is not the candidate.
C21_Original ==
    Succeeded => (q_response.answer = Candidate <=> q_decision = "useful")

\* C21 (amended): an execution without oracle failure ended after
\* check_relevance decided; on "useful" no rewrite ran and the final answer
\* is the candidate that generate returned; on "not_useful" rewrite ran
\* once and the final answer is the generation that rewrite returned, which
\* replaced the candidate in the state.
C21_FinalAnswerByDecision ==
    Succeeded =>
        /\ q_decision \in {"useful", "not_useful"}
        /\ q_decision = "useful" =>
              /\ Len(q_returned) = 3
              /\ q_response.answer = Candidate
        /\ q_decision = "not_useful" =>
              /\ Len(q_returned) = 4
              /\ q_response.answer = Rewritten

\* C21 witness: an execution judged not grounded was answered with the
\* generation of rewrite, which differs from the candidate.
C21_Witness ==
    /\ Succeeded /\ q_decision = "not_useful"
    /\ q_response.answer = Rewritten
    /\ Rewritten # Candidate

\* The chunk sequence retrieve_documents obtained from the retriever.
Retrieved == q_returned[1].documents

\* C22: generate_answer, check_relevance and rewrite_answer leave the
\* retrieved documents and the question as retrieve_documents returned
\* them, and in every successful response the sources are the entries of
\* the retrieved chunks, one per chunk and in the retrieved order, whether
\* or not rewrite ran.
C22_SourcesFollowRetrieved ==
    /\ (Len(q_returned) >= 1 /\ q_node # "idle") =>
          /\ q_state.documents = Retrieved
          /\ q_state.question = q_returned[1].question
          /\ \A i \in 2..Len(q_returned) :
                "documents" \in DOMAIN q_returned[i] =>
                    /\ q_returned[i].documents = Retrieved
                    /\ q_returned[i].question = q_returned[1].question
    /\ Succeeded =>
          /\ Len(q_response.sources) = Len(Retrieved)
          /\ \A i \in 1..Len(Retrieved) :
                q_response.sources[i] = Source(Retrieved[i])

\* C22 witness: an execution in which rewrite ran was answered with the
\* sources of two retrieved chunks that differ.
C22_Witness ==
    /\ Succeeded /\ Len(q_trail) = 4
    /\ Len(Retrieved) = 2
    /\ q_response.sources = <<Source(Retrieved[1]), Source(Retrieved[2])>>
    /\ q_response.sources[1] # q_response.sources[2]

\* The suffix get_rag_response appends to every snippet.
Ellipsis == <<".", ".", ".">>

\* The snippet of the i-th source of the response.
Snippet(i) == q_response.sources[i].page_content_snippet

\* C23 (as stated, with the most generous fixed bound): every snippet of a
\* successful response is a prefix of the content of the corresponding
\* retrieved chunk and is no longer than the bound.
C23_Original ==
    Succeeded =>
        \A i \in 1..Len(q_response.sources) :
            /\ IsPrefix(Snippet(i), Retrieved[i].page_content)
            /\ Len(Snippet(i)) <= SnippetLen + Len(Ellipsis)

\* C23 (amended): every snippet of a successful response is the first
\* min(200, length) characters of the content of the corresponding
\* retrieved chunk followed by the three-character ellipsis, for contents
\* shorter than, as long as and longer than 200 characters; its length is
\* at most 203.
C23_SnippetIsPrefixAndEllipsis ==
    Succeeded =>
        \A i \in 1..Len(q_response.sources) :
            LET content == Retrieved[i].page_content
                kept == Len(Snippet(i)) - Len(Ellipsis)
            IN  /\ kept = (IF Len(content) < SnippetLen THEN Len(content) ELSE SnippetLen)
                /\ IsPrefix(SubSeq(Snippet(i), 1, kept), content)
                /\ SubSeq(Snippet(i), kept + 1, Len(Snippet(i))) = Ellipsis
                /\ Len(Snippet(i)) <= SnippetLen + Len(Ellipsis)

\* C23 witness: a response holds the snippet of a chunk shorter than 200
\* characters and the snippet of a chunk longer than 200 characters.
C23_Witness ==
    /\ Succeeded /\ Len(q_response.sources) = 2
    /\ Len(Retrieved[1].page_content) < SnippetLen
    /\ Len(Retrieved[2].page_content) > SnippetLen
    /\ Len(Snippet(1)) = Len(Retrieved[1].page_content) + Len(Ellipsis)
    /\ Len(Snippet(2)) = SnippetLen + Len(Ellipsis)

\* An oracle call of the execution raised: its last step returned nothing.
Raised == Len(q_returned) < Len(q_trail)

\* C24: when an oracle call of retrieve, generate, check_relevance or
\* rewrite raises, get_rag_response raises nothing: it returns the dict of
\* the fixed apology, no sources and the "error" key, and the endpoint
\* answers 500; nothing of the failed execution (its candidate answer, its
\* retrieved documents) is in the response.  The failure dict is returned
\* in no other case.
C24_FailureResponseOnOracleFailure ==
    /\ q_node = "raised" <=> (Raised /\ q_node # "answered")
    /\ q_node = "answered" =>
          /\ DOMAIN q_response \in {{"answer", "sources"}, {"answer", "sources", "error"}}
          /\ "error" \in DOMAIN q_response <=> Raised
          /\ Raised =>
                /\ q_response.answer
                      = "Sorry, an internal error occurred. Please try again later."
                /\ q_response.answer \notin Generations
                /\ q_response.sources = <<>>
                /\ q_response.error
                      = "An internal error prevented the request from completing."
                /\ q_status = 500

\* C24 witness: the rewrite call raised after documents were retrieved and
\* a candidate was generated, and the failure response was returned.
C24_Witness ==
    /\ q_node = "answered" /\ Raised
    /\ q_trail = <<"retrieve", "generate", "check_relevance", "rewrite">>
    /\ Retrieved # <<>>
    /\ Candidate \in Generations
    /\ q_response.sources = <<>>
    /\ q_status = 500

\* The chunks of request r written so far, in order.
Written(r) == SubSeq(all_chunks[r], 1, total_added[r])

\* C25: once a batch write of an ingestion call has failed the call is
\* over: it ended with HTTP 500 having issued no store call but
\* add_documents (no lock acquisition, no index read, no index write) and
\* does not hold the lock; the chunks it wrote are whole batches from the
\* front of all_chunks, and when no other request ran, the store differs
\* from the initial one by exactly those chunks.
C25_FailFastAfterBatchFailure ==
    \A r \in Req :
        BatchFailed(r) =>
            /\ outcome[r] = "http500"
            /\ issued[r] = {"add"}
            /\ lock # r
            /\ total_added[r] % BatchSize = 0
            /\ ops = 1 =>
                  \E seed \in SeedNames :
                      /\ sentinel = (IF seed = <<>> THEN <<>> ELSE <<Join(seed)>>)
                      /\ chunks = [n \in FileNames |->
                                      CountIn(seed, n) + CountIn(Written(r), n)]

\* C25 witness: the only request of the behaviour collected two full
\* batches; the first was written and the second failed.
C25_Witness ==
    \E r \in Req :
        /\ ops = 1 /\ BatchFailed(r)
        /\ Len(all_chunks[r]) = 2 * BatchSize
        /\ total_added[r] = BatchSize
        /\ chunks[all_chunks[r][1]] >= BatchSize

\* The store calls of the write phase of an ingestion call: the batch
\* write, the index read under the lock and the index write.
WritePhaseCalls == {"add", "get", "upsert"}

\* C26: when a batch write, the index read under the lock or the index
\* write of an ingestion call raised, the call is over with HTTP 500: its
\* outcome is never a return, its response is the detail of the error and
\* no (count, errors) report, and the lock is released.  An ingestion call
\* that returned had no failed store call.
C26_StoreFailuresSurface ==
    \A r \in Req :
        kind[r] = "ingest" =>
            /\ failed[r] \in WritePhaseCalls \cup {"none"}
            /\ failed[r] \in WritePhaseCalls =>
                  /\ pc[r] = "done"
                  /\ outcome[r] = "http500" /\ status[r] = 500
                  /\ Response(r) = ErrorResponse
                  /\ lock # r
                  /\ failed[r] \in issued[r]
            /\ (pc[r] = "done" /\ outcome[r] = "return") => failed[r] = "none"

\* C26 witness: the index write of a call raised after its chunks were
\* written; the call ended with HTTP 500.
C26_Witness ==
    \E r \in Req :
        /\ kind[r] = "ingest" /\ failed[r] = "upsert"
        /\ total_added[r] = Len(all_chunks[r]) /\ total_added[r] > 0
        /\ status[r] = 500

\* The batches of the loop 'for i in range(0, len(all_chunks), batch_size)',
\* from index i on.
RECURSIVE BatchesFrom(_, _)
BatchesFrom(all, i) ==
    IF i >= Len(all) THEN <<>>
    ELSE <<BatchAfter(all, i)>> \o BatchesFrom(all, i + BatchSize)

\* The concatenation of a list of lists.
RECURSIVE Flatten(_)
Flatten(ls) == IF ls = <<>> THEN <<>> ELSE Head(ls) \o Flatten(Tail(ls))

\* The positions of the chunks of request r in all_chunks.
Positions(r) == [i \in 1..Len(all_chunks[r]) |-> i]

\* C27: the batch loop cuts all_chunks into consecutive slices: every batch
\* holds between 1 and 10 chunks, every batch but the last exactly 10, and
\* the batches in order hold every position of all_chunks exactly once, in
\* order.  While the loop runs the chunks written are the first total_added
\* chunks, a whole number of batches, and the next batch starts right
\* after them; past the loop every chunk is written, and when no other
\* request ran the store gained exactly the chunks written.
C27_BatchesPartitionChunks ==
    \A r \in Req :
        kind[r] = "ingest" =>
            LET all == all_chunks[r]
                batches == BatchesFrom(Positions(r), 0)
            IN  /\ Flatten(batches) = Positions(r)
                /\ \A k \in 1..Len(batches) :
                      /\ Len(batches[k]) >= 1 /\ Len(batches[k]) <= BatchSize
                      /\ k < Len(batches) => Len(batches[k]) = BatchSize
                /\ total_added[r] <= Len(all)
                /\ pc[r] = "batch" =>
                      /\ total_added[r] % BatchSize = 0
                      /\ total_added[r] < Len(all)
                      /\ BatchAfter(Positions(r), total_added[r])
                            = batches[(total_added[r] \div BatchSize) + 1]
                      /\ Written(r) \o BatchAfter(all, total_added[r])
                            = SubSeq(all, 1, total_added[r]
                                             + Len(BatchAfter(all, total_added[r])))
                /\ (pc[r] \in {"idx_lock", "idx_read", "idx_write"}
                      \/ (pc[r] = "done" /\ outcome[r] = "return")) =>
                      total_added[r] = Len(all)
                /\ (ops = 1 /\ pc[r] # "file") =>
                      \E seed \in SeedNames :
                          chunks = [n \in FileNames |->
                                       CountIn(seed, n) + CountIn(Written(r), n)]

\* C27 witness: a call that collected eleven chunks of two files has
\* returned after writing a batch of ten and a batch of one.
C27_Witness ==
    \E r \in Req :
        /\ kind[r] = "ingest" /\ pc[r] = "done" /\ outcome[r] = "return"
        /\ Len(all_chunks[r]) = BatchSize + 1
        /\ all_chunks[r][1] # all_chunks[r][BatchSize + 1]
        /\ Len(BatchesFrom(all_chunks[r], 0)) = 2
        /\ total_added[r] = BatchSize + 1

\* Request r added the single name b to the index while request q removed
\* the name a, different from b and listed with chunks when q arrived; the
\* two calls overlapped and both returned.
AddedWhileRemoved(r, q) ==
    /\ r # q
    /\ AddedOk(r) /\ Len(files[r]) = 1 /\ processed_filenames[r] = files[r]
    /\ kind[q] = "delete" /\ pc[q] = "done" /\ outcome[q] = "return"
    /\ filename[q] # files[r][1]
    /\ InList(filename[q], names[q]) /\ before[q][filename[q]] > 0
    /\ ~solo[r] \/ ~solo[q]

\* C28 (as stated): when an index addition of the name b and an index
\* removal of a different listed name a ran concurrently and both
\* completed, the index holds the initial names minus a plus b.
C28_Original ==
    \A r, q \in Req :
        AddedWhileRemoved(r, q) =>
            /\ ToSet(Listed) = expected
            /\ InList(files[r][1], Listed)
            /\ ~InList(filename[q], Listed)

\* The index addition of request r made its read under the lock.
ReadUnderLock(r) ==
    kind[r] = "ingest" /\ {"lock", "get"} \subseteq issued[r] /\ failed[r] # "get"

\* C29: an index addition whose read under the lock finds every passed
\* name listed returns at once: the call is done with a normal return, it
\* issued no index write, built no updated list and does not hold the
\* lock; when no other request ran, the index record is the initial one
\* and lists what the addition read.  An addition that found a name
\* missing does not return before its write.
C29_NoOpAdditionWritesNothing ==
    \A r \in Req :
        ReadUnderLock(r) =>
            IF \A f \in ToSet(processed_filenames[r]) : InList(f, names[r])
            THEN /\ pc[r] = "done" /\ outcome[r] = "return" /\ status[r] = 200
                 /\ "upsert" \notin issued[r]
                 /\ updated_list[r] = <<>>
                 /\ lock # r
                 /\ ops = 1 =>
                       /\ Listed = names[r]
                       /\ \E seed \in SeedNames : seed # <<>> /\ sentinel = <<Join(seed)>>
            ELSE /\ pc[r] \in {"idx_write", "done"}
                 /\ pc[r] = "done" => "upsert" \in issued[r]

\* C29 witness: the only request of the behaviour ingested a file whose
\* name is listed; its chunks are written, the index record was not.
C29_Witness ==
    \E r \in Req :
        /\ ops = 1 /\ ReadUnderLock(r) /\ pc[r] = "done"
        /\ processed_filenames[r] # <<>>
        /\ \A f \in ToSet(processed_filenames[r]) : InList(f, names[r])
        /\ total_added[r] > 0
        /\ "upsert" \notin issued[r]
        /\ lock = 0

\* The index record holds what request r wrote: its write succeeded and
\* no later write replaced it.
WroteRecord(r) ==
    /\ pc[r] = "done" /\ "upsert" \in issued[r] /\ failed[r] = "none"
    /\ sentinel = <<Join(updated_list[r])>>

\* C30 (as stated): reading the sentinel record back yields exactly the
\* set of names of the list that was written, for every list the pipeline
\* writes.
C30_Original ==
    \A r \in Req :
        WroteRecord(r) => ToSet(Listed) = ToSet(updated_list[r])

\* The delete request q removed the last remaining name: it wrote the
\* index record with the empty list.
RemovedLastName(q) ==
    /\ kind[q] = "delete" /\ pc[q] = "done" /\ outcome[q] = "return"
    /\ "upsert" \in issued[q] /\ updated_list[q] = <<>>

\* The ingestion request r added its names to an index it read as empty,
\* and the record holds what it wrote.
AddedToEmptyIndex(r) ==
    /\ AddedOk(r) /\ names[r] = <<>>
    /\ WroteRecord(r)

\* C31 (as stated): removing the last remaining name leaves the sentinel
\* record in the store with an empty value, get_all_document_names then
\* returns the empty list, and an addition of names made after it yields
\* exactly those names.
C31_Original ==
    \A q \in Req :
        RemovedLastName(q) =>
            /\ sentinel # <<>>
            /\ WroteRecord(q) => sentinel = << <<>> >> /\ Listed = <<>>
            /\ \A r \in Req :
                  AddedToEmptyIndex(r) =>
                      ToSet(Listed) = ToSet(processed_filenames[r])

\* The chunk list all is made of one block per processed file, in order:
\* the block of a file holds the chunks the splitter returned for it, each
\* bearing the file's name.
RECURSIVE Blocks(_, _)
Blocks(all, ps) ==
    IF ps = <<>> THEN all = <<>>
    ELSE \E n \in ChunkCounts :
            /\ n <= Len(all)
            /\ \A k \in 1..n : all[k] = Head(ps)
            /\ Blocks(SubSeq(all, n + 1, Len(all)), Tail(ps))

\* C32: the chunks an ingestion call collects and writes are, file by file
\* in upload order, the chunks of its processed files, each carrying the
\* filename of its own file as original_filename, also when the call has
\* several files; no chunk bears the name of a file that failed or of no
\* file, and when no other request ran the store gained chunks only under
\* the names of the processed files, as many as were written.
C32_ChunksBearTheirFilename ==
    \A r \in Req :
        kind[r] = "ingest" =>
            /\ Blocks(all_chunks[r], processed_filenames[r])
            /\ \A k \in 1..Len(all_chunks[r]) :
                  /\ InList(all_chunks[r][k], processed_filenames[r])
                  /\ InList(all_chunks[r][k], files[r])
            /\ ops = 1 =>
                  \E seed \in SeedNames :
                      \A n \in FileNames :
                          /\ chunks[n] = CountIn(seed, n) + CountIn(Written(r), n)
                          /\ chunks[n] > CountIn(seed, n)
                                => InList(n, processed_filenames[r])

\* C32 witness: a call with two files of different names, the first failed
\* and the second chunked, has written its chunks; they bear the name of
\* the second file.
C32_Witness ==
    \E r \in Req :
        /\ kind[r] = "ingest" /\ pc[r] = "done" /\ outcome[r] = "return"
        /\ Len(files[r]) = 2 /\ files[r][1] # files[r][2]
        /\ error_files[r] = <<files[r][1]>>
        /\ total_added[r] > 0
        /\ \A k \in 1..Len(all_chunks[r]) : all_chunks[r][k] = files[r][2]
        /\ chunks[files[r][2]] >= total_added[r]

\* The dict get_rag_response returned has the key "error".
Flagged == "error" \in DOMAIN q_response

\* C33: the dict an answered execution returned has the key "error"
\* exactly when one of its oracle calls raised, and the endpoint answered
\* 500 exactly when the dict has the key and 200 otherwise; the dict built
\* from a completed workflow is the answer and the sources of its final
\* state and has no such key.
C33_FlagExactlyOnOracleFailure ==
    q_node = "answered" =>
        /\ Flagged <=> Raised
        /\ q_status = 500 <=> Flagged
        /\ q_status = 200 <=> ~Flagged
        /\ ~Raised =>
              /\ Len(q_returned) \in {3, 4}
              /\ q_response = AnswerResponse(q_state)
              /\ DOMAIN q_response = {"answer", "sources"}

\* C33 witness: an execution whose retrieval raised was answered with the
\* flagged dict and HTTP 500.
C33_Witness ==
    /\ q_node = "answered" /\ q_trail = <<"retrieve">> /\ Raised
    /\ Flagged /\ q_status = 500

\* The scheduling of an execution: the event loop runs a node that is
\* ready, every oracle call returns or raises, and get_rag_response
\* returns once the graph ended or raised.  (Whether a client asks a
\* question is not a matter of scheduling.)
QueryFairness ==
    /\ WF_vars(RetrieveDocuments)
    /\ WF_vars(GenerateAnswer)
    /\ WF_vars(CheckRelevance)
    /\ WF_vars(RewriteAnswer)
    /\ WF_vars(Respond)

QueryFairSpec == QuerySpec /\ QueryFairness

\* An execution is under way: asked and not yet answered.
Executing == q_node \notin {"idle", "answered"}

\* C34: every execution terminates, each oracle call returning or raising:
\* an execution under way is eventually answered, and it makes at most one
\* retrieval, one generation, one verification and one rewrite call: no
\* node runs twice (no retry, no cycle) and at most the last call raised.
C34_ExecutionTerminates ==
    /\ [](/\ NoDuplicates(q_trail)
          /\ Len(q_trail) <= 4
          /\ Len(q_returned) <= Len(q_trail)
          /\ Len(q_trail) <= Len(q_returned) + 1)
    /\ (Executing ~> q_node = "answered")

\* C34 witness: the last execution of the behaviour was answered after
\* four oracle calls that all returned.
C34_Witness ==
    /\ q_node = "answered" /\ q_count = MaxQueries
    /\ Len(q_trail) = 4 /\ Len(q_returned) = 4

\* An upload of one file.
StartIngestOne(r) == StartIngest(r) /\ Len(files'[r]) = 1

\* The handling of a file that yields at most one chunk.
ProcessFileOne(r) == ProcessFile(r) /\ Len(all_chunks'[r]) <= 1

\* The service with uploads of one file of at most one chunk: the locked
\* sections and every path into and out of them are those of Next.
LockNext ==
    \E r \in Req :
        \/ StartIngestOne(r)
        \/ ProcessFileOne(r)
        \/ WriteBatch(r)
        \/ AcquireForAdd(r)
        \/ ReadForAdd(r)
        \/ WriteForAdd(r)
        \/ CheckExists(r)
        \/ DeleteChunks(r)
        \/ AcquireForRemove(r)
        \/ ReadForRemove(r)
        \/ WriteForRemove(r)
        \/ ListDocuments(r)

\* Fair scheduling: the event loop runs every request that is ready, each
\* store call returns or raises, and a request waiting for the lock gets
\* it once it stays free.  Arrivals are not fair.
LockFairness ==
    \A r \in Req :
        /\ WF_vars(ProcessFileOne(r))
        /\ WF_vars(WriteBatch(r))
        /\ WF_vars(AcquireForAdd(r))
        /\ WF_vars(ReadForAdd(r))
        /\ WF_vars(WriteForAdd(r))
        /\ WF_vars(DeleteChunks(r))
        /\ WF_vars(AcquireForRemove(r))
        /\ WF_vars(ReadForRemove(r))
        /\ WF_vars(WriteForRemove(r))

LockFairSpec == Init /\ [][LockNext]_vars /\ LockFairness

\* C35: under fair scheduling a request that waits for the index lock
\* eventually holds it, and a request that holds it eventually has left
\* its locked section with the lock released: a request that is done or
\* outside its locked section never holds the lock, whichever way it left
\* (write done, no-op return, failed read, failed write), and the read
\* under the lock goes on while the reader itself holds the lock.
C35_WaitersAcquireTheLock ==
    /\ [](\A r \in Req : lock = r <=> pc[r] \in InLockSection)
    /\ \A r \in Req : (pc[r] \in AtLock) ~> (lock = r)
    /\ \A r \in Req : (lock = r) ~> (pc[r] = "done" /\ lock # r)

\* C35 witness: a request that waited for the lock while the other held
\* it is done with its index write, after the holder left through a failed
\* read.
C35_Witness ==
    \E r, q \in Req :
        /\ r # q
        /\ failed[q] = "get" /\ "lock" \in issued[q] /\ pc[q] = "done"
        /\ ~solo[r] /\ pc[r] = "done" /\ {"lock", "upsert"} \subseteq issued[r]
        /\ lock = 0

\* C36 (as stated, for names without the delimiter): whenever no call is
\* in progress, every name that has a chunk in the store is listed in the
\* index, also after calls that ended in an error.
C36_Original ==
    Quiescent =>
        \A n \in FileNames : (PlainName(n) /\ chunks[n] > 0) => InList(n, Listed)

\* The delete request q of a name and the ingestion request r of one file
\* of that name overlapped and both returned, no store call having failed.
DeletedWhileIngested(q, r) ==
    /\ q # r
    /\ kind[q] = "delete" /\ pc[q] = "done" /\ outcome[q] = "return"
    /\ AddedOk(r) /\ files[r] = <<filename[q]>>
    /\ ~solo[q] \/ ~solo[r]
    /\ faults = 0

\* C37 (as stated, for a name without the delimiter): after a delete of a
\* name and an ingestion of a file of that name that ran concurrently have
\* both completed, the name is listed and has chunks, or is not listed and
\* has no chunks.
C37_Original ==
    \A q, r \in Req :
        (DeletedWhileIngested(q, r) /\ PlainName(filename[q])) =>
            \/ InList(filename[q], Listed) /\ chunks[filename[q]] > 0
            \/ ~InList(filename[q], Listed) /\ chunks[filename[q]] = 0

\* The retrieved record is a chunk written by ingestion: its metadata
\* names the owning document.
IsChunk(doc) == "original_filename" \in DOMAIN doc.metadata

\* C38 (as stated): every source of a successful query response is a chunk
\* written by ingestion and names its owning document; the index record is
\* never returned as a source.
C38_Original ==
    Succeeded =>
        \A i \in 1..Len(q_response.sources) :
            /\ IsChunk(Retrieved[i])
            /\ q_response.sources[i].filename
                  = Retrieved[i].metadata.original_filename

====
